---- MODULE Spec2Model ----
(***************************************************************************)
(* DomainSentinel, monitor_domain.py: one run of main() fetches the WHOIS  *)
(* "Updated Date" and the HTTP status of DOMAIN, compares them with the    *)
(* two state files, mails a summary and overwrites the state files.        *)
(*                                                                         *)
(* Text is modelled as a sequence of one-character strings, so that the    *)
(* regular-expression substitution, str.strip, str.split, str.splitlines   *)
(* and the text-mode file read act on characters as they do in Python.     *)
(***************************************************************************)
EXTENDS Integers, Sequences, FiniteSets, TLC

(***************************************************************************)
(* Bounds of the model.                                                    *)
(***************************************************************************)
\* runs of main() the scheduler starts one after the other
MaxRuns == 2
\* depth to which " at 0" ... "x<hex>" fragments are nested in an exception text
MaxNest == 3
\* fragments concatenated into an input of normalize_http_status
MaxLen == 5

(***************************************************************************)
(* Configuration section, lines 19-31.                                     *)
(***************************************************************************)
\* DOMAIN of line 19 (DOMAIN is a reserved word of TLA+)
Domain == <<"*", "*", "*", "*", "*">>
WHOIS_FILE == "whois_record.txt"
STATUS_FILE == "curl_status.txt"
SMTP_PORT == 465
HTTP_TIMEOUT == 10

(***************************************************************************)
(* Values that are not text: Python's None, and a file that does not exist.*)
(* Each is a one-element sequence whose element is no single character, so *)
(* it differs from every text.                                             *)
(***************************************************************************)
None == <<"<None>">>
Absent == <<"<absent>">>

(***************************************************************************)
(* Characters.                                                             *)
(***************************************************************************)
HexDigits ==
    {"0", "1", "2", "3", "4", "5", "6", "7", "8", "9",
     "a", "b", "c", "d", "e", "f", "A", "B", "C", "D", "E", "F"}

\* the characters str.strip() removes (ASCII whitespace)
Whitespace == {" ", "\t", "\n", "\r", "\f"}

\* the line boundaries of str.splitlines() that occur in the modelled outputs
LineBreaks == {"\n", "\r", "\f"}

RECURSIVE Repeat(_, _)
Repeat(s, n) == IF n = 0 THEN <<>> ELSE s \o Repeat(s, n - 1)

\* s[i..] starts with the text p
StartsAt(s, i, p) ==
    /\ i + Len(p) - 1 <= Len(s)
    /\ \A k \in 1..Len(p) : s[i + k - 1] = p[k]

\* Python's "p in s"
Contains(s, p) == \E i \in 1..(Len(s) + 1) : StartsAt(s, i, p)

(***************************************************************************)
(* str.strip(): the text without its leading and trailing whitespace.      *)
(***************************************************************************)
strip(s) ==
    LET keep == {i \in 1..Len(s) : s[i] \notin Whitespace}
    IN  IF keep = {} THEN <<>>
        ELSE LET lo == CHOOSE i \in keep : \A j \in keep : i <= j
                 hi == CHOOSE i \in keep : \A j \in keep : j <= i
             IN  SubSeq(s, lo, hi)

(***************************************************************************)
(* The pattern r' at 0x[0-9a-fA-F]+' of line 43.                           *)
(***************************************************************************)
AddrPrefix == <<" ", "a", "t", " ", "0", "x">>

\* the last index of the greedy run of hex digits starting at i (i - 1 if none)
RECURSIVE HexRunEnd(_, _)
HexRunEnd(s, i) ==
    IF i <= Len(s) /\ s[i] \in HexDigits THEN HexRunEnd(s, i + 1) ELSE i - 1

\* the index of the last character of the match that starts at i, 0 if none does
MatchEnd(s, i) ==
    IF StartsAt(s, i, AddrPrefix) /\ HexRunEnd(s, i + Len(AddrPrefix)) >= i + Len(AddrPrefix)
    THEN HexRunEnd(s, i + Len(AddrPrefix))
    ELSE 0

\* some substring of s matches the pattern
HasAddr(s) == \E i \in 1..Len(s) : MatchEnd(s, i) > 0

\* re.sub(pattern, '', s): one left-to-right pass over s that drops every
\* leftmost non-overlapping match and resumes after it
RECURSIVE ReSubFrom(_, _)
ReSubFrom(s, i) ==
    IF i > Len(s) THEN <<>>
    ELSE IF MatchEnd(s, i) > 0 THEN ReSubFrom(s, MatchEnd(s, i) + 1)
    ELSE <<s[i]>> \o ReSubFrom(s, i + 1)

re_sub(s) == ReSubFrom(s, 1)

\* normalize_http_status, lines 34-43
normalize_http_status(status_str) == strip(re_sub(status_str))

(***************************************************************************)
(* Text of the program and of its collaborators.                           *)
(***************************************************************************)
\* "Updated Date:", line 64
UpdatedDateLabel == <<"U", "p", "d", "a", "t", "e", "d", " ", "D", "a", "t", "e", ":">>
\* "Error: ", line 88
ErrorLabel == <<"E", "r", "r", "o", "r", ":", " ">>
\* " changed" and " same", line 159
ChangedSuffix == <<" ", "c", "h", "a", "n", "g", "e", "d">>
SameSuffix == <<" ", "s", "a", "m", "e">>
\* "Error: Whois Check for ", line 124
WhoisErrorPrefix == <<"E", "r", "r", "o", "r", ":", " ", "W", "h", "o", "i", "s", " ", "C", "h", "e", "c", "k", " ", "f", "o", "r", " ">>

(***************************************************************************)
(* str.splitlines(), line 63: the lines of a text, "\r\n" being one line   *)
(* boundary, and no empty last line after a final boundary.                *)
(***************************************************************************)
RECURSIVE SplitLinesFrom(_, _, _)
SplitLinesFrom(s, i, cur) ==
    IF i > Len(s) THEN (IF cur = <<>> THEN <<>> ELSE <<cur>>)
    ELSE IF s[i] \in LineBreaks
    THEN LET next == IF s[i] = "\r" /\ i < Len(s) /\ s[i + 1] = "\n" THEN i + 2 ELSE i + 1
         IN  <<cur>> \o SplitLinesFrom(s, next, <<>>)
    ELSE SplitLinesFrom(s, i + 1, Append(cur, s[i]))

splitlines(s) == SplitLinesFrom(s, 1, <<>>)

\* line.split(":", 1), line 65: the text cut at its first colon
split_colon(line) ==
    LET at == {i \in 1..Len(line) : line[i] = ":"}
    IN  IF at = {} THEN <<line>>
        ELSE LET i == CHOOSE i \in at : \A j \in at : i <= j
             IN  <<SubSeq(line, 1, i - 1), SubSeq(line, i + 1, Len(line))>>

(***************************************************************************)
(* get_whois_updated_date, lines 45-74. result is the outcome of           *)
(* subprocess.run: raised (it threw), returncode, stdout.                  *)
(***************************************************************************)
get_whois_updated_date(result) ==
    IF result.raised THEN None
    ELSE IF result.returncode # 0 THEN None
    ELSE LET lines == splitlines(result.stdout)
             hits == {k \in 1..Len(lines) :
                          /\ Contains(lines[k], UpdatedDateLabel)
                          /\ Len(split_colon(lines[k])) > 1}
         IN  IF hits = {} THEN None
             ELSE LET k == CHOOSE k \in hits : \A j \in hits : k <= j
                  IN  strip(split_colon(lines[k])[2])

(***************************************************************************)
(* str(response.status_code), line 86: the decimal digits of a number.     *)
(***************************************************************************)
Digit(d) == <<"0", "1", "2", "3", "4", "5", "6", "7", "8", "9">>[d + 1]

RECURSIVE str(_)
str(n) == IF n < 10 THEN <<Digit(n)>> ELSE Append(str(n \div 10), Digit(n % 10))

(***************************************************************************)
(* get_http_status, lines 76-91. outcome is what requests.get did: raised  *)
(* with the exception's text, or a response with its status_code.          *)
(***************************************************************************)
get_http_status(outcome) ==
    IF outcome.raised
    THEN normalize_http_status(ErrorLabel \o outcome.text)
    ELSE str(outcome.status_code)

(***************************************************************************)
(* f.read() of a file opened in text mode, lines 139-140 and 149-150:      *)
(* universal newlines turn "\r\n" and "\r" into "\n". f.write() on this    *)
(* platform stores the text as given.                                      *)
(***************************************************************************)
RECURSIVE ReadFrom(_, _)
ReadFrom(content, i) ==
    IF i > Len(content) THEN <<>>
    ELSE IF content[i] = "\r"
    THEN <<"\n">> \o ReadFrom(content,
                              IF i < Len(content) /\ content[i + 1] = "\n" THEN i + 2 ELSE i + 1)
    ELSE <<content[i]>> \o ReadFrom(content, i + 1)

file_read(content) == ReadFrom(content, 1)

(***************************************************************************)
(* The inputs of a run: what the whois process, the HTTP request and the   *)
(* SMTP session do, and what the state files hold before the first run.    *)
(***************************************************************************)
WhoisStdouts ==
    { <<"D", "o", "m", "a", "i", "n", ":", " ", "x", "\n", "U", "p", "d", "a", "t", "e", "d", " ", "D", "a", "t", "e", ":", " ", "2", "3", "\n">>,
      <<"U", "p", "d", "a", "t", "e", "d", " ", "D", "a", "t", "e", ":", " ", "2", "4", "\r", "\n">>,
      <<"u", "p", "d", "a", "t", "e", "d", " ", "d", "a", "t", "e", ":", " ", "2", "3", "\n">>,
      <<" ", "a", ":", " ", "U", "p", "d", "a", "t", "e", "d", " ", "D", "a", "t", "e", ":", "2", "3", " ", "\n">>,
      <<"U", "p", "d", "a", "t", "e", "d", " ", "D", "a", "t", "e", ":", "\n">>,
      <<>> }

WhoisResults ==
    {[raised |-> TRUE, returncode |-> 0, stdout |-> <<>>],
     [raised |-> FALSE, returncode |-> 1, stdout |-> <<"U", "p", "d", "a", "t", "e", "d", " ", "D", "a", "t", "e", ":", " ", "2", "3", "\n">>]}
    \cup {[raised |-> FALSE, returncode |-> 0, stdout |-> o] : o \in WhoisStdouts}

\* memory addresses as repr() prints them
Addresses == {<<"1">>, <<"2", "f">>}

\* an exception text with k address fragments nested in one another: removing
\* the innermost " at 0x<a>" joins the text around it into the next one
ExcText(k, a) ==
    <<"c">> \o Repeat(<<" ", "a", "t", " ", "0">>, k) \o Repeat(<<"x">> \o a, k) \o <<">">>

ExcTexts == {ExcText(k, a) : k \in 0..MaxNest, a \in Addresses}

StatusCodes == {200, 404}

HttpOutcomes ==
    {[raised |-> FALSE, status_code |-> c, text |-> <<>>] : c \in StatusCodes}
    \cup {[raised |-> TRUE, status_code |-> 0, text |-> t] : t \in ExcTexts}

\* state files left by earlier versions or edited by hand
InitialWhoisFiles == {Absent, <<"2", "3">>, <<" ", "2", "3", "\n">>, <<"2", "4">>}

InitialStatusFiles ==
    {Absent, <<"2", "0", "0">>, <<"2", "0", "0", "\r", "\n">>,
     ErrorLabel \o ExcText(1, <<"2", "f">>),
     ErrorLabel \o ExcText(2, <<"1">>)}

\* the inputs of the runs that share the state files
ConcWhoisResults ==
    {[raised |-> TRUE, returncode |-> 0, stdout |-> <<>>],
     [raised |-> FALSE, returncode |-> 0, stdout |-> <<"U", "p", "d", "a", "t", "e", "d", " ", "D", "a", "t", "e", ":", " ", "2", "3", "\n">>],
     [raised |-> FALSE, returncode |-> 0, stdout |-> <<"U", "p", "d", "a", "t", "e", "d", " ", "D", "a", "t", "e", ":", " ", "2", "4", "\n">>]}

ConcHttpOutcomes ==
    {[raised |-> FALSE, status_code |-> c, text |-> <<>>] : c \in StatusCodes}

ConcWhoisFiles == {Absent, <<"2", "3">>}
ConcStatusFiles == {Absent, <<"2", "0", "0">>}

\* no whois result and no HTTP outcome yet
NoResult == [raised |-> FALSE, returncode |-> -1, stdout |-> <<>>]
NoOutcome == [raised |-> FALSE, status_code |-> -1, text |-> <<>>]
NoRun == [exit |-> -1, whois |-> None, http |-> NoOutcome]

(***************************************************************************)
(* State.                                                                  *)
(***************************************************************************)
Procs == {1, 2}

VARIABLES
    \* the content of WHOIS_FILE and of STATUS_FILE, or Absent
    whoisFile, statusFile,
    \* per invocation of the program: where main() stands, and its locals
    pc, current_updated, current_http_status, normalized_current_http,
    whois_exists, status_exists,
    previous_updated, previous_http_status, normalized_previous_http,
    whois_changed, http_changed, subject,
    \* the process's exit status (-1 while it runs)
    exit_status,
    \* the calls of send_email: subject, and whether the SMTP session delivered
    outbox,
    \* what the probes met in this run, and the steps main() has taken
    whois_result, http_outcome, steps,
    \* the invocations that exist, the number of the current run of the
    \* scheduler, and how the run before it ended
    active, runs, last_run,
    \* the invocation that last fetched the WHOIS date, the HTTP status, and
    \* that last wrote each state file (0: none)
    whois_observer, http_observer, whois_writer, status_writer,
    \* normalize_http_status applied to a text, and to its own result
    norm_in, norm_once, norm_twice, norm_pc

files == <<whoisFile, statusFile>>
locals ==
    <<current_updated, current_http_status, normalized_current_http,
      whois_exists, status_exists, previous_updated, previous_http_status,
      normalized_previous_http, whois_changed, http_changed, subject>>
probes == <<whois_result, http_outcome>>
sched == <<active, runs, last_run>>
observers == <<whois_observer, http_observer>>
writers == <<whois_writer, status_writer>>
norm == <<norm_in, norm_once, norm_twice, norm_pc>>

vars ==
    <<files, pc, locals, exit_status, outbox, probes, steps, sched, observers,
      writers, norm>>

(***************************************************************************)
(* The state before any run: every invocation in a stands at the first     *)
(* line of main(); the others do not exist.                                *)
(***************************************************************************)
InitRuns(a) ==
    /\ active = a
    /\ pc = [p \in Procs |-> IF p \in a THEN "start" ELSE "idle"]
    /\ current_updated = [p \in Procs |-> None]
    /\ current_http_status = [p \in Procs |-> None]
    /\ normalized_current_http = [p \in Procs |-> None]
    /\ whois_exists = [p \in Procs |-> FALSE]
    /\ status_exists = [p \in Procs |-> FALSE]
    /\ previous_updated = [p \in Procs |-> None]
    /\ previous_http_status = [p \in Procs |-> None]
    /\ normalized_previous_http = [p \in Procs |-> None]
    /\ whois_changed = [p \in Procs |-> FALSE]
    /\ http_changed = [p \in Procs |-> FALSE]
    /\ subject = [p \in Procs |-> None]
    /\ exit_status = [p \in Procs |-> -1]
    /\ outbox = [p \in Procs |-> <<>>]
    /\ whois_result = [p \in Procs |-> NoResult]
    /\ http_outcome = [p \in Procs |-> NoOutcome]
    /\ steps = [p \in Procs |-> <<>>]
    /\ runs = 1
    /\ last_run = NoRun
    /\ whois_observer = 0
    /\ http_observer = 0
    /\ whois_writer = 0
    /\ status_writer = 0

InitNormIdle ==
    /\ norm_in = <<>>
    /\ norm_once = None
    /\ norm_twice = None
    /\ norm_pc = "idle"

Init ==
    /\ whoisFile \in InitialWhoisFiles
    /\ statusFile \in InitialStatusFiles
    /\ InitRuns({1})
    /\ InitNormIdle

InitConc ==
    /\ whoisFile \in ConcWhoisFiles
    /\ statusFile \in ConcStatusFiles
    /\ InitRuns({1, 2})
    /\ InitNormIdle

(***************************************************************************)
(* send_email, lines 93-115: one SMTP session; an exception of it is       *)
(* logged and swallowed, so the call always returns.                       *)
(***************************************************************************)
send_email(box, subj, delivered) ==
    Append(box, [subject |-> subj, delivered |-> delivered])

(***************************************************************************)
(* main(), lines 117-188, one action per probe, file access and mail.      *)
(***************************************************************************)
\* lines 121-122: the WHOIS probe and the test of its result
GetWhois(p, results) ==
    /\ pc[p] = "start"
    /\ \E r \in results :
        /\ whois_result' = [whois_result EXCEPT ![p] = r]
        /\ current_updated' = [current_updated EXCEPT ![p] = get_whois_updated_date(r)]
        /\ pc' = [pc EXCEPT ![p] =
                    IF get_whois_updated_date(r) = None THEN "whois_failed" ELSE "http"]
    /\ whois_observer' = p
    /\ steps' = [steps EXCEPT ![p] = Append(@, "whois")]
    /\ UNCHANGED <<files, current_http_status, normalized_current_http, whois_exists,
                   status_exists, previous_updated, previous_http_status,
                   normalized_previous_http, whois_changed, http_changed, subject,
                   exit_status, outbox, http_outcome, sched, http_observer, writers, norm>>

\* a plausible slip: the run goes on after the error notification
WhoisFatalNoExit(p) ==
    /\ pc[p] = "whois_failed"
    /\ \E delivered \in BOOLEAN :
        outbox' = [outbox EXCEPT ![p] = send_email(@, WhoisErrorPrefix \o Domain, delivered)]
    /\ pc' = [pc EXCEPT ![p] = "http"]
    /\ steps' = [steps EXCEPT ![p] = Append(@, "error_mail")]
    /\ UNCHANGED <<files, locals, exit_status, probes, sched, observers, writers, norm>>

\* lines 123-126: the error notification and sys.exit(1)
WhoisFatal(p) ==
    /\ pc[p] = "whois_failed"
    /\ \E delivered \in BOOLEAN :
        outbox' = [outbox EXCEPT ![p] = send_email(@, WhoisErrorPrefix \o Domain, delivered)]
    /\ exit_status' = [exit_status EXCEPT ![p] = 1]
    /\ pc' = [pc EXCEPT ![p] = "exited"]
    /\ steps' = [steps EXCEPT ![p] = Append(@, "error_mail")]
    /\ UNCHANGED <<files, locals, probes, sched, observers, writers, norm>>

\* lines 129-130: the HTTP probe, and its result normalized again
GetHttp(p, outcomes) ==
    /\ pc[p] = "http"
    /\ \E o \in outcomes :
        /\ http_outcome' = [http_outcome EXCEPT ![p] = o]
        /\ current_http_status' = [current_http_status EXCEPT ![p] = get_http_status(o)]
        /\ normalized_current_http' =
               [normalized_current_http EXCEPT ![p] = normalize_http_status(get_http_status(o))]
    /\ http_observer' = p
    /\ pc' = [pc EXCEPT ![p] = "check_whois"]
    /\ steps' = [steps EXCEPT ![p] = Append(@, "http")]
    /\ UNCHANGED <<files, current_updated, whois_exists, status_exists, previous_updated,
                   previous_http_status, normalized_previous_http, whois_changed,
                   http_changed, subject, exit_status, outbox, whois_result, sched,
                   whois_observer, writers, norm>>

\* line 133: os.path.exists(WHOIS_FILE)
CheckWhois(p) ==
    /\ pc[p] = "check_whois"
    /\ whois_exists' = [whois_exists EXCEPT ![p] = (whoisFile # Absent)]
    /\ pc' = [pc EXCEPT ![p] = IF whoisFile # Absent THEN "read_whois" ELSE "create_whois"]
    /\ UNCHANGED <<files, current_updated, current_http_status, normalized_current_http,
                   status_exists, previous_updated, previous_http_status,
                   normalized_previous_http, whois_changed, http_changed, subject,
                   exit_status, outbox, probes, steps, sched, observers, writers, norm>>

\* lines 134-137: the file is created with the current value
CreateWhois(p) ==
    /\ pc[p] = "create_whois"
    /\ whoisFile' = current_updated[p]
    /\ whois_writer' = p
    /\ previous_updated' = [previous_updated EXCEPT ![p] = current_updated[p]]
    /\ pc' = [pc EXCEPT ![p] = "check_status"]
    /\ steps' = [steps EXCEPT ![p] = Append(@, "load_whois")]
    /\ UNCHANGED <<statusFile, current_updated, current_http_status,
                   normalized_current_http, whois_exists, status_exists,
                   previous_http_status, normalized_previous_http, whois_changed,
                   http_changed, subject, exit_status, outbox, probes, sched, observers,
                   status_writer, norm>>

\* a plausible slip: the stored value is compared as read, not trimmed
ReadWhoisUntrimmed(p) ==
    /\ pc[p] = "read_whois"
    /\ previous_updated' = [previous_updated EXCEPT ![p] = file_read(whoisFile)]
    /\ pc' = [pc EXCEPT ![p] = "check_status"]
    /\ steps' = [steps EXCEPT ![p] = Append(@, "load_whois")]
    /\ UNCHANGED <<files, current_updated, current_http_status, normalized_current_http,
                   whois_exists, status_exists, previous_http_status,
                   normalized_previous_http, whois_changed, http_changed, subject,
                   exit_status, outbox, probes, sched, observers, writers, norm>>

\* lines 139-140: the stored value is read and trimmed
ReadWhois(p) ==
    /\ pc[p] = "read_whois"
    /\ previous_updated' = [previous_updated EXCEPT ![p] = strip(file_read(whoisFile))]
    /\ pc' = [pc EXCEPT ![p] = "check_status"]
    /\ steps' = [steps EXCEPT ![p] = Append(@, "load_whois")]
    /\ UNCHANGED <<files, current_updated, current_http_status, normalized_current_http,
                   whois_exists, status_exists, previous_http_status,
                   normalized_previous_http, whois_changed, http_changed, subject,
                   exit_status, outbox, probes, sched, observers, writers, norm>>

\* line 143: os.path.exists(STATUS_FILE)
CheckStatus(p) ==
    /\ pc[p] = "check_status"
    /\ status_exists' = [status_exists EXCEPT ![p] = (statusFile # Absent)]
    /\ pc' = [pc EXCEPT ![p] = IF statusFile # Absent THEN "read_status" ELSE "create_status"]
    /\ UNCHANGED <<files, current_updated, current_http_status, normalized_current_http,
                   whois_exists, previous_updated, previous_http_status,
                   normalized_previous_http, whois_changed, http_changed, subject,
                   exit_status, outbox, probes, steps, sched, observers, writers, norm>>

\* lines 144-147: the file is created with the current value
CreateStatus(p) ==
    /\ pc[p] = "create_status"
    /\ statusFile' = normalized_current_http[p]
    /\ status_writer' = p
    /\ previous_http_status' = [previous_http_status EXCEPT ![p] = normalized_current_http[p]]
    /\ pc' = [pc EXCEPT ![p] = "evaluate"]
    /\ steps' = [steps EXCEPT ![p] = Append(@, "load_status")]
    /\ UNCHANGED <<whoisFile, current_updated, current_http_status,
                   normalized_current_http, whois_exists, status_exists,
                   previous_updated, normalized_previous_http, whois_changed,
                   http_changed, subject, exit_status, outbox, probes, sched, observers,
                   whois_writer, norm>>

\* lines 149-150: the stored value is read and trimmed
ReadStatus(p) ==
    /\ pc[p] = "read_status"
    /\ previous_http_status' = [previous_http_status EXCEPT ![p] = strip(file_read(statusFile))]
    /\ pc' = [pc EXCEPT ![p] = "evaluate"]
    /\ steps' = [steps EXCEPT ![p] = Append(@, "load_status")]
    /\ UNCHANGED <<files, current_updated, current_http_status, normalized_current_http,
                   whois_exists, status_exists, previous_updated,
                   normalized_previous_http, whois_changed, http_changed, subject,
                   exit_status, outbox, probes, sched, observers, writers, norm>>

\* a plausible slip: "changed" only when both signals changed
subject_line_and(wc, hc) ==
    IF wc /\ hc THEN Domain \o ChangedSuffix ELSE Domain \o SameSuffix

\* line 159: the subject of the summary
subject_line(wc, hc) ==
    IF wc \/ hc THEN Domain \o ChangedSuffix ELSE Domain \o SameSuffix

\* a plausible slip: the summary is not sent before the files are overwritten
EvaluateThenPersist(p) ==
    /\ pc[p] = "evaluate"
    /\ normalized_previous_http' =
           [normalized_previous_http EXCEPT ![p] = normalize_http_status(previous_http_status[p])]
    /\ whois_changed' = [whois_changed EXCEPT ![p] = (current_updated[p] # previous_updated[p])]
    /\ http_changed' =
           [http_changed EXCEPT ![p] =
               (normalized_current_http[p] # normalize_http_status(previous_http_status[p]))]
    /\ subject' =
           [subject EXCEPT ![p] =
               subject_line(current_updated[p] # previous_updated[p],
                            normalized_current_http[p]
                                # normalize_http_status(previous_http_status[p]))]
    /\ pc' = [pc EXCEPT ![p] = "persist_whois"]
    /\ steps' = [steps EXCEPT ![p] = Append(@, "evaluate")]
    /\ UNCHANGED <<files, current_updated, current_http_status, normalized_current_http,
                   whois_exists, status_exists, previous_updated, previous_http_status,
                   exit_status, outbox, probes, sched, observers, writers, norm>>

\* lines 152-159: the stored HTTP value normalized, the two flags, the subject
Evaluate(p) ==
    /\ pc[p] = "evaluate"
    /\ normalized_previous_http' =
           [normalized_previous_http EXCEPT ![p] = normalize_http_status(previous_http_status[p])]
    /\ whois_changed' = [whois_changed EXCEPT ![p] = (current_updated[p] # previous_updated[p])]
    /\ http_changed' =
           [http_changed EXCEPT ![p] =
               (normalized_current_http[p] # normalize_http_status(previous_http_status[p]))]
    /\ subject' =
           [subject EXCEPT ![p] =
               subject_line(current_updated[p] # previous_updated[p],
                            normalized_current_http[p]
                                # normalize_http_status(previous_http_status[p]))]
    /\ pc' = [pc EXCEPT ![p] = "notify"]
    /\ steps' = [steps EXCEPT ![p] = Append(@, "evaluate")]
    /\ UNCHANGED <<files, current_updated, current_http_status, normalized_current_http,
                   whois_exists, status_exists, previous_updated, previous_http_status,
                   exit_status, outbox, probes, sched, observers, writers, norm>>

\* line 180: the summary is sent, delivered or not
Notify(p) ==
    /\ pc[p] = "notify"
    /\ \E delivered \in BOOLEAN :
        outbox' = [outbox EXCEPT ![p] = send_email(@, subject[p], delivered)]
    /\ pc' = [pc EXCEPT ![p] = "persist_whois"]
    /\ steps' = [steps EXCEPT ![p] = Append(@, "notify")]
    /\ UNCHANGED <<files, locals, exit_status, probes, sched, observers, writers, norm>>

\* a plausible slip: the file keeps the value that was stored
PersistWhoisPrevious(p) ==
    /\ pc[p] = "persist_whois"
    /\ whoisFile' = previous_updated[p]
    /\ whois_writer' = p
    /\ pc' = [pc EXCEPT ![p] = "persist_status"]
    /\ steps' = [steps EXCEPT ![p] = Append(@, "persist_whois")]
    /\ UNCHANGED <<statusFile, locals, exit_status, outbox, probes, sched, observers,
                   status_writer, norm>>

\* lines 183-184: WHOIS_FILE is overwritten with the current value
PersistWhois(p) ==
    /\ pc[p] = "persist_whois"
    /\ whoisFile' = current_updated[p]
    /\ whois_writer' = p
    /\ pc' = [pc EXCEPT ![p] = "persist_status"]
    /\ steps' = [steps EXCEPT ![p] = Append(@, "persist_whois")]
    /\ UNCHANGED <<statusFile, locals, exit_status, outbox, probes, sched, observers,
                   status_writer, norm>>

\* a plausible slip: STATUS_FILE is written only after a delivered summary
PersistStatusIfDelivered(p) ==
    /\ pc[p] = "persist_status"
    /\ statusFile' =
           IF outbox[p][Len(outbox[p])].delivered THEN normalized_current_http[p] ELSE statusFile
    /\ status_writer' = p
    /\ exit_status' = [exit_status EXCEPT ![p] = 0]
    /\ pc' = [pc EXCEPT ![p] = "done"]
    /\ steps' = [steps EXCEPT ![p] = Append(@, "persist_status")]
    /\ UNCHANGED <<whoisFile, locals, outbox, probes, sched, observers, whois_writer, norm>>

\* lines 185-188: STATUS_FILE is overwritten with the current value, main()
\* returns and the process ends with status 0
PersistStatus(p) ==
    /\ pc[p] = "persist_status"
    /\ statusFile' = normalized_current_http[p]
    /\ status_writer' = p
    /\ exit_status' = [exit_status EXCEPT ![p] = 0]
    /\ pc' = [pc EXCEPT ![p] = "done"]
    /\ steps' = [steps EXCEPT ![p] = Append(@, "persist_status")]
    /\ UNCHANGED <<whoisFile, locals, outbox, probes, sched, observers, whois_writer, norm>>

\* lines 190-191: the scheduler starts the program again once it has ended
NextRun(p) ==
    /\ pc[p] \in {"done", "exited"}
    /\ runs < MaxRuns
    /\ runs' = runs + 1
    /\ last_run' = [exit |-> exit_status[p], whois |-> current_updated[p],
                    http |-> http_outcome[p]]
    /\ pc' = [pc EXCEPT ![p] = "start"]
    /\ current_updated' = [current_updated EXCEPT ![p] = None]
    /\ current_http_status' = [current_http_status EXCEPT ![p] = None]
    /\ normalized_current_http' = [normalized_current_http EXCEPT ![p] = None]
    /\ whois_exists' = [whois_exists EXCEPT ![p] = FALSE]
    /\ status_exists' = [status_exists EXCEPT ![p] = FALSE]
    /\ previous_updated' = [previous_updated EXCEPT ![p] = None]
    /\ previous_http_status' = [previous_http_status EXCEPT ![p] = None]
    /\ normalized_previous_http' = [normalized_previous_http EXCEPT ![p] = None]
    /\ whois_changed' = [whois_changed EXCEPT ![p] = FALSE]
    /\ http_changed' = [http_changed EXCEPT ![p] = FALSE]
    /\ subject' = [subject EXCEPT ![p] = None]
    /\ exit_status' = [exit_status EXCEPT ![p] = -1]
    /\ outbox' = [outbox EXCEPT ![p] = <<>>]
    /\ whois_result' = [whois_result EXCEPT ![p] = NoResult]
    /\ http_outcome' = [http_outcome EXCEPT ![p] = NoOutcome]
    /\ steps' = [steps EXCEPT ![p] = <<>>]
    /\ UNCHANGED <<files, active, observers, writers, norm>>

\* runs of the program one after the other
Next ==
    \/ \E p \in active : GetWhois(p, WhoisResults)
    \/ \E p \in active : WhoisFatal(p)
    \/ \E p \in active : GetHttp(p, HttpOutcomes)
    \/ \E p \in active : CheckWhois(p)
    \/ \E p \in active : CreateWhois(p)
    \/ \E p \in active : ReadWhois(p)
    \/ \E p \in active : CheckStatus(p)
    \/ \E p \in active : CreateStatus(p)
    \/ \E p \in active : ReadStatus(p)
    \/ \E p \in active : Evaluate(p)
    \/ \E p \in active : Notify(p)
    \/ \E p \in active : PersistWhois(p)
    \/ \E p \in active : PersistStatus(p)
    \/ \E p \in active : NextRun(p)

Spec == Init /\ [][Next]_vars

\* two invocations of the program on the same state files, one run each
NextConc ==
    \/ \E p \in active : GetWhois(p, ConcWhoisResults)
    \/ \E p \in active : WhoisFatal(p)
    \/ \E p \in active : GetHttp(p, ConcHttpOutcomes)
    \/ \E p \in active : CheckWhois(p)
    \/ \E p \in active : CreateWhois(p)
    \/ \E p \in active : ReadWhois(p)
    \/ \E p \in active : CheckStatus(p)
    \/ \E p \in active : CreateStatus(p)
    \/ \E p \in active : ReadStatus(p)
    \/ \E p \in active : Evaluate(p)
    \/ \E p \in active : Notify(p)
    \/ \E p \in active : PersistWhois(p)
    \/ \E p \in active : PersistStatus(p)

SpecConc == InitConc /\ [][NextConc]_vars

(***************************************************************************)
(* normalize_http_status as a function: it is applied to a text built from *)
(* at most MaxLen fragments, and then to its own result.                   *)
(***************************************************************************)
Fragments == {<<" ", "a", "t", " ", "0">>, <<"x", "1">>, <<" ">>, <<"g">>}

RECURSIVE TextsOf(_)
TextsOf(n) ==
    IF n = 0 THEN {<<>>}
    ELSE TextsOf(n - 1) \cup {t \o f : t \in TextsOf(n - 1), f \in Fragments}

NormInputs == TextsOf(MaxLen)

InitNorm ==
    /\ whoisFile = Absent
    /\ statusFile = Absent
    /\ InitRuns({})
    /\ norm_in \in NormInputs
    /\ norm_once = None
    /\ norm_twice = None
    /\ norm_pc = "start"

NormalizeOnce ==
    /\ norm_pc = "start"
    /\ norm_once' = normalize_http_status(norm_in)
    /\ norm_pc' = "once"
    /\ UNCHANGED <<files, pc, locals, exit_status, outbox, probes, steps, sched,
                   observers, writers, norm_in, norm_twice>>

NormalizeTwice ==
    /\ norm_pc = "once"
    /\ norm_twice' = normalize_http_status(norm_once)
    /\ norm_pc' = "twice"
    /\ UNCHANGED <<files, pc, locals, exit_status, outbox, probes, steps, sched,
                   observers, writers, norm_in, norm_once>>

NextNorm == NormalizeOnce \/ NormalizeTwice

SpecNorm == InitNorm /\ [][NextNorm]_vars

(***************************************************************************)
(* Properties.                                                             *)
(***************************************************************************)
\* main() has computed the flags and the subject
PostEval == {"notify", "persist_whois", "persist_status", "done"}
\* the summary has been sent
PostNotify == {"persist_whois", "persist_status", "done"}

ChangedSubject == Domain \o ChangedSuffix
SameSubject == Domain \o SameSuffix

\* the steps of a run whose WHOIS probe returned a date, in order
Order ==
    <<"whois", "http", "load_whois", "load_status", "evaluate", "notify",
      "persist_whois", "persist_status">>

IsNumeric(s) == Len(s) > 0 /\ \A i \in 1..Len(s) : s[i] \in {Digit(d) : d \in 0..9}

\* C1: in a run whose WHOIS probe returned a date, every subject handed to
\* send_email is "<DOMAIN> changed" or "<DOMAIN> same", and the summary's subject
\* is "<DOMAIN> changed" exactly when whois_changed or http_changed is true.
C1_SubjectExact ==
    \A p \in active :
        current_updated[p] # None =>
            /\ \A i \in 1..Len(outbox[p]) :
                   outbox[p][i].subject \in {ChangedSubject, SameSubject}
            /\ pc[p] \in PostNotify =>
                   /\ Len(outbox[p]) = 1
                   /\ outbox[p][1].subject =
                          IF whois_changed[p] \/ http_changed[p]
                          THEN ChangedSubject ELSE SameSubject

\* C1 witness: a summary sent when only the HTTP signal changed
C1_Witness ==
    /\ pc[1] = "done"
    /\ ~whois_changed[1]
    /\ http_changed[1]
    /\ outbox[1][1].subject = ChangedSubject

\* C2: a signal whose state file does not exist when main() loads the state has
\* its changed flag false in this run, and the file is created holding the
\* current value of the signal.
C2_FirstRun ==
    \A p \in active :
        /\ (pc[p] \in {"check_status", "create_status", "read_status", "evaluate"}
                \/ pc[p] \in PostEval) /\ ~whois_exists[p]
               => whoisFile = get_whois_updated_date(whois_result[p])
        /\ pc[p] \in PostEval /\ ~whois_exists[p] => ~whois_changed[p]
        /\ (pc[p] = "evaluate" \/ pc[p] \in PostEval) /\ ~status_exists[p]
               => statusFile = normalize_http_status(get_http_status(http_outcome[p]))
        /\ pc[p] \in PostEval /\ ~status_exists[p] => ~http_changed[p]

\* C3: when a run ends normally, WHOIS_FILE holds the WHOIS date and STATUS_FILE
\* the HTTP signal of that run, whether the values changed or not and whether
\* the summary was delivered or not.
C3_EndOfRun ==
    \A p \in active :
        pc[p] = "done" =>
            /\ whoisFile = current_updated[p]
            /\ whoisFile = get_whois_updated_date(whois_result[p])
            /\ statusFile = normalized_current_http[p]

\* C3 witness: a run ends after a summary that was not delivered and with both
\* stored values replaced
C3_Witness ==
    /\ pc[1] = "done"
    /\ ~outbox[1][1].delivered
    /\ whois_changed[1]
    /\ http_changed[1]
    /\ whoisFile = current_updated[1]

\* the state of a run whose WHOIS probe returned None
FatalState(p) ==
    /\ get_whois_updated_date(whois_result[p]) = None
    /\ pc[p] \in {"whois_failed", "exited"}
    /\ http_outcome[p] = NoOutcome
    /\ pc[p] = "exited" =>
           /\ exit_status[p] = 1
           /\ steps[p] = <<"whois", "error_mail">>
           /\ Len(outbox[p]) = 1
           /\ outbox[p][1].subject = WhoisErrorPrefix \o Domain

\* C4, in every state: a run whose WHOIS probe returned None sends the one error
\* notification and ends with status 1 without the HTTP probe and without the
\* summary; every other run that ends has status 0.
C4_FatalInv ==
    \A p \in active :
        /\ whois_result[p] # NoResult /\ get_whois_updated_date(whois_result[p]) = None
               => FatalState(p)
        /\ exit_status[p] = 1 => get_whois_updated_date(whois_result[p]) = None
        /\ exit_status[p] # -1 <=> pc[p] \in {"done", "exited"}
        /\ pc[p] = "done" => exit_status[p] = 0

\* C4, in every step: the steps of the fatal path leave both state files as they
\* were.
C4_FatalStep ==
    \A p \in active :
        pc'[p] \in {"whois_failed", "exited"} => UNCHANGED files

C5_Idempotent ==
    /\ norm_pc \in {"once", "twice"} =>
           /\ ~HasAddr(norm_once)
           /\ strip(norm_once) = norm_once
    /\ norm_pc = "twice" => norm_twice = norm_once

\* C6: with a numeric stored HTTP signal and an HTTP probe that raises with
\* address fragments in its text, http_changed is true and after the run
\* STATUS_FILE holds the error string without address fragments, not the raw
\* text.
C6_ErrorSignal ==
    \A p \in active :
        /\ pc[p] = "done"
        /\ status_exists[p]
        /\ IsNumeric(previous_http_status[p])
        /\ http_outcome[p].raised
        /\ HasAddr(ErrorLabel \o http_outcome[p].text)
        => /\ http_changed[p]
           /\ StartsAt(statusFile, 1, SubSeq(ErrorLabel, 1, 6))
           /\ ~HasAddr(statusFile)
           /\ statusFile # ErrorLabel \o http_outcome[p].text

\* C7: with a stored WHOIS date, whois_changed is true exactly when the current
\* date differs from the trimmed content of WHOIS_FILE; the second of two
\* consecutive normal runs that observe the same date has whois_changed false.
C7_WhoisChanged ==
    \A p \in active :
        /\ pc[p] \in {"notify", "persist_whois"} /\ whois_exists[p]
               => whois_changed[p] =
                      (get_whois_updated_date(whois_result[p]) # strip(file_read(whoisFile)))
        /\ pc[p] \in PostEval /\ last_run.exit = 0 /\ last_run.whois = current_updated[p]
               => ~whois_changed[p]

\* C7 witness: the second run observes the date the first run observed, which
\* the first run had found changed
C7_Witness ==
    /\ pc[1] = "notify"
    /\ runs = 2
    /\ last_run.exit = 0
    /\ last_run.whois = current_updated[1]
    /\ whois_exists[1]
    /\ ~whois_changed[1]

\* C8: if the stored HTTP signal and the error text of the current probe differ
\* only in " at 0x<hex digits>" fragments, http_changed is false; so it is in the
\* second of two consecutive runs whose probes raise the same text up to such
\* fragments.
C8_RepeatedFailure ==
    \A p \in active :
        /\ pc[p] \in PostEval /\ status_exists[p] /\ http_outcome[p].raised
             /\ normalize_http_status(previous_http_status[p])
                    = normalize_http_status(ErrorLabel \o http_outcome[p].text)
               => ~http_changed[p]
        /\ pc[p] \in PostEval /\ last_run.exit = 0 /\ last_run.http.raised
             /\ http_outcome[p].raised
             /\ normalize_http_status(ErrorLabel \o last_run.http.text)
                    = normalize_http_status(ErrorLabel \o http_outcome[p].text)
               => ~http_changed[p]

\* C9, in every state: the steps of a run whose WHOIS probe returned a date are
\* an initial part of the order WHOIS fetch, HTTP fetch, state load, evaluation,
\* notification, persistence, and the run is done exactly when all are taken.
C9_OrderInv ==
    \A p \in active :
        current_updated[p] # None =>
            /\ Len(steps[p]) <= Len(Order)
            /\ steps[p] = SubSeq(Order, 1, Len(steps[p]))
            /\ pc[p] = "done" <=> steps[p] = Order

\* C9, in every step: a state file changes only when it is created during the
\* state load or overwritten after the one notification attempt has returned.
C9_OrderStep ==
    (whoisFile' # whoisFile \/ statusFile' # statusFile) =>
        \E p \in active :
            /\ pc[p] \in {"create_whois", "create_status", "persist_whois", "persist_status"}
            /\ pc'[p] # pc[p]
            /\ pc[p] \in {"persist_whois", "persist_status"} => Len(outbox[p]) = 1

\* C9: the linear order of a run.
C9_LinearOrder == [](C9_OrderInv) /\ [][C9_OrderStep]_vars

\* C9 witness: a run done with every step taken once, its summary not delivered
C9_Witness ==
    /\ pc[1] = "done"
    /\ steps[1] = Order
    /\ ~outbox[1][1].delivered
    /\ whois_changed[1]

\* C10: once two interleaved runs have ended, each state file holds the value
\* of the run that wrote it last, and each run ended as it would alone: status 1
\* exactly when its own WHOIS probe failed.
C10_LastWriterWins ==
    (\A p \in active : pc[p] \in {"done", "exited"}) =>
        /\ whois_writer # 0 => whoisFile = current_updated[whois_writer]
        /\ status_writer # 0 => statusFile = normalized_current_http[status_writer]
        /\ \A p \in active :
               exit_status[p] = IF current_updated[p] = None THEN 1 ELSE 0

\* C10 witness: both runs have ended, WHOIS_FILE holds the date of the run that
\* wrote last and not the date observed last, and the run that observed last
\* reported no change although the date it saw differs from the one before
C10_Witness ==
    /\ pc[1] = "done"
    /\ pc[2] = "done"
    /\ whois_observer = 2
    /\ whois_writer = 1
    /\ whoisFile # current_updated[2]
    /\ whoisFile = current_updated[1]
    /\ ~whois_changed[2]
    /\ whois_exists[2]

\* both runs have ended having reported the same change of the WHOIS date
C10_SameChangeTwice ==
    /\ pc[1] = "done"
    /\ pc[2] = "done"
    /\ whois_changed[1]
    /\ whois_changed[2]
    /\ previous_updated[1] = previous_updated[2]
    /\ current_updated[1] = current_updated[2]
    /\ whois_exists[1]
    /\ whois_exists[2]

====
